---------------------------- MODULE Spec2Model ----------------------------
(***************************************************************************)
(* Model of the Dagen reels pipeline:                                      *)
(*   - backend/main.py            the GET /convert handler                 *)
(*   - dagen_video_simple.py      the library the handler imports          *)
(*   - backend/dagen_video_reels.py   the second ("reels") library variant *)
(*                                                                         *)
(* Texts are sequences of one-character strings.  Durations are counted in *)
(* ticks of 1/30 s (one video frame), which makes both fallback formulas   *)
(* (len/15 s and words/2 s) exact integers.                                *)
(***************************************************************************)
EXTENDS Integers, Sequences, FiniteSets, TLC

VARIABLES
    sm,      \* harness around summarise_text: its arguments and its result
    lib,     \* one run of a library variant: synthesis, subtitles, video
    req,     \* the /convert invocations: req[r] is invocation r's frame
    fs       \* the filesystem outside any invocation: path -> file

vars == <<sm, lib, req, fs>>

-----------------------------------------------------------------------------
(* Bounds of the model *)

MaxArticleLen == 5      \* characters of an article given to summarise_text
MaxScenesArg  == 3      \* largest max_scenes argument tried
MaxLibScenes  == 3      \* scenes in one library run

-----------------------------------------------------------------------------
(* Strings *)

NL == "\n"
SP == " "

Whitespace == {SP, NL}

Min(a, b) == IF a <= b THEN a ELSE b
Max(a, b) == IF a >= b THEN a ELSE b

RECURSIVE Join(_, _)
\* sep.join(parts)
Join(parts, sep) ==
    IF parts = <<>> THEN <<>>
    ELSE IF Len(parts) = 1 THEN parts[1]
    ELSE parts[1] \o sep \o Join(Tail(parts), sep)

RECURSIVE split(_, _)
\* str.split(sep) for a one-character separator: always at least one piece
split(s, sep) ==
    IF \A i \in 1..Len(s) : s[i] # sep THEN <<s>>
    ELSE LET i == CHOOSE j \in 1..Len(s) :
                      s[j] = sep /\ \A k \in 1..(j - 1) : s[k] # sep
         IN  <<SubSeq(s, 1, i - 1)>> \o split(SubSeq(s, i + 1, Len(s)), sep)

RECURSIVE lstrip(_)
lstrip(s) == IF s # <<>> /\ s[1] \in Whitespace THEN lstrip(Tail(s)) ELSE s

RECURSIVE rstrip(_)
rstrip(s) ==
    IF s # <<>> /\ s[Len(s)] \in Whitespace
    THEN rstrip(SubSeq(s, 1, Len(s) - 1)) ELSE s

\* str.strip()
strip(s) == rstrip(lstrip(s))

\* str.split() without argument: the maximal runs of non-whitespace
words(s) ==
    LET spaced == [i \in 1..Len(s) |-> IF s[i] \in Whitespace THEN SP ELSE s[i]]
    IN  SelectSeq(split(spaced, SP), LAMBDA w : w # <<>>)

LowerChar(c) ==
    CASE c = "J" -> "j" [] c = "S" -> "s" [] c = "O" -> "o" [] c = "N" -> "n"
      [] c = "M" -> "m" [] c = "P" -> "p" [] OTHER -> c

lower_identity(s) == s

\* str.lower()
lower(s) == [i \in 1..Len(s) |-> LowerChar(s[i])]

RECURSIVE wrapWords(_, _, _)
\* the greedy line filling of textwrap.wrap over words shorter than the width
wrapWords(ws, line, width) ==
    IF ws = <<>> THEN (IF line = <<>> THEN <<>> ELSE <<line>>)
    ELSE IF line = <<>> THEN wrapWords(Tail(ws), ws[1], width)
    ELSE IF Len(line) + 1 + Len(ws[1]) <= width
         THEN wrapWords(Tail(ws), line \o <<SP>> \o ws[1], width)
         ELSE <<line>> \o wrapWords(ws, <<>>, width)

\* textwrap.wrap(text, width=width)
wrap(text, width) == wrapWords(words(text), <<>>, width)

RECURSIVE SumSeq(_)
SumSeq(s) == IF s = <<>> THEN 0 ELSE s[1] + SumSeq(Tail(s))

-----------------------------------------------------------------------------
(* Exceptions and call results *)

Ok(v)     == [exc |-> "none", val |-> v]
Raise(e)  == [exc |-> e, val |-> <<>>]

-----------------------------------------------------------------------------
(* dagen_video_simple.summarise_text *)

\* paragraphs = [p.strip() for p in article.split("\n") if p.strip()]
paragraphs(article) ==
    LET pieces   == split(article, NL)
        stripped == [i \in 1..Len(pieces) |-> strip(pieces[i])]
    IN  SelectSeq(stripped, LAMBDA p : p # <<>>)

\* int(i * step) with step = len(paragraphs) / n.  Python computes it in
\* binary floating point; for fewer than 30 paragraphs the result equals the
\* exact floor(i * P / n) used here.
strideIndex(i, P, n) == (i * P) \div n

summarise_text(article, max_scenes) ==
    LET ps == paragraphs(article)
        n  == Min(max_scenes, Len(ps))
    IN  IF ps = <<>> THEN Ok(<<>>)
        ELSE IF n = 0 THEN Raise("ZeroDivisionError")   \* step = len / n
        ELSE IF n < 0 THEN Ok(<<>>)                       \* range(n) is empty
        ELSE Ok([k \in 1..n |-> ps[strideIndex(k - 1, Len(ps), n) + 1]])


-----------------------------------------------------------------------------
(* The summarise_text harness *)

Alphabet == {"a", "b", SP, NL}

RECURSIVE SeqsUpTo(_, _)
SeqsUpTo(S, n) ==
    IF n = 0 THEN {<<>>}
    ELSE LET shorter == SeqsUpTo(S, n - 1)
         IN  shorter \cup {Append(s, c) : s \in shorter, c \in S}

Articles == SeqsUpTo(Alphabet, MaxArticleLen)

SmIdle == [pc |-> "idle", article |-> <<>>, max_scenes |-> 0, result |-> Ok(<<>>)]

\* summarise_text(article, max_scenes) is called and returns or raises
CallSummarise ==
    /\ sm.pc = "call"
    /\ sm' = [sm EXCEPT !.pc = "returned",
                        !.result = summarise_text(sm.article, sm.max_scenes)]
    /\ UNCHANGED <<lib, req, fs>>

-----------------------------------------------------------------------------
(* Program constants *)

TicksPerSecond      == 30   \* fps of the rendered video; one tick is one frame
FallbackFloorSimple == 2    \* max(2.0, len(text) / 15.0)
CharsPerSecond      == 15
FallbackFloorReels  == 3    \* max(3.0, words / 2.0)
WordsPerSecond      == 2
SrtWidthSimple      == 30   \* textwrap.wrap(txt, width=30)
BulletWidthReels    == 60   \* textwrap.wrap(para, width=60)
TitleLenReels       == 80   \* para[:80]
MaxScenesReels      == 4    \* paragraphs[:4]
MaxScenesConvert    == 5    \* summarise_text(article, max_scenes=5)
CreateVideoParams   == 5    \* create_video(scene_texts, audio_paths, srt_path, brand, output_path)
CreateVideoArgs     == 3    \* create_video(scenes, brand, video_path)

-----------------------------------------------------------------------------
(* The filesystem.  A path is [dir, name, rnd]: dir is the system temp    *)
(* directory (tempfile.gettempdir()), a workspace (named by the random part *)
(* of the workspace's own name) or somewhere else; rnd is the random part   *)
(* of a name tempfile generated, NoRnd for a fixed name.  tempfile draws    *)
(* random names until one is new (O_EXCL); the model numbers the names each *)
(* writer has drawn.                                                        *)
(* A file is [path, by, dur]: who wrote it and, for decodable audio, its    *)
(* duration in ticks (0 when it holds no decodable audio).                  *)

SysTmp    == <<"tmp", 0>>
Elsewhere == <<"/", 0>>
NoRnd     == <<"", 0>>

Path(dir, name, rnd) == [dir |-> dir, name |-> name, rnd |-> rnd]
File(path, by, dur)  == [path |-> path, by |-> by, dur |-> dur]

Exists(files, path) == \E f \in files : f.path = path

UsedTmp(files, by) == {f.path.rnd[2] : f \in {g \in files : g.path.rnd[1] = by}}

FreshTmp(files, by) ==
    <<by, CHOOSE n \in 1..(Cardinality(files) + 1) :
              /\ n \notin UsedTmp(files, by)
              /\ \A m \in 1..(n - 1) : m \in UsedTmp(files, by)>>

\* tempfile.NamedTemporaryFile(delete=False, suffix=...) / tempfile.mkstemp
NamedTemporaryFile(files, by, suffix) == Path(SysTmp, suffix, FreshTmp(files, by))

\* tempfile.TemporaryDirectory(): the workspace directory
TemporaryDirectory(files, by) == Path(SysTmp, "tmpdir", FreshTmp(files, by))

\* os.path.join(tmpdir, name)
InWorkspace(tmpdir, name) == Path(tmpdir.rnd, name, NoRnd)

\* TemporaryDirectory.__exit__: the directory and everything in it
Cleanup(files, tmpdir) ==
    {f \in files : f.path # tmpdir /\ f.path.dir # tmpdir.rnd}

\* os.path.join(tempfile.gettempdir(), "subtitles.srt")
SubtitlesPath == Path(SysTmp, "subtitles.srt", NoRnd)

\* Iterating a str yields its characters; each is used as a path.  A path
\* string under the temp directory starts "/tmp/".
CharsOfPath(path) ==
    <<Path(Elsewhere, "/", NoRnd), Path(Elsewhere, "t", NoRnd),
      Path(Elsewhere, "m", NoRnd), Path(Elsewhere, "p", NoRnd),
      Path(Elsewhere, "/", NoRnd)>>

\* AudioFileClip(path).duration: raises unless path holds decodable audio
AudioFileClip(files, path) ==
    IF \E f \in files : f.path = path /\ f.dur > 0
    THEN Ok((CHOOSE f \in files : f.path = path /\ f.dur > 0).dur)
    ELSE Raise("OSError")

-----------------------------------------------------------------------------
(* Python values that cross a call with the wrong type are told apart by a  *)
(* type tag.                                                                *)

Str(s) == [type |-> "str", chars |-> s]

\* Scene(text=..., audio_path=..., duration=...) of dagen_video_simple
Scene(text, audio_path, duration) ==
    [type |-> "Scene", text |-> text, audio_path |-> audio_path,
     duration |-> duration]

Zip(xs, ys) == [i \in 1..Min(Len(xs), Len(ys)) |-> <<xs[i], ys[i]>>]

-----------------------------------------------------------------------------
(* dagen_video_simple.generate_audio_elevenlabs                             *)
(* remote = [status, dur]: what the text-to-speech call does this time:     *)
(* "ok" (audio of dur ticks), "http_error" (requests.post or                *)
(* raise_for_status raises) or "decode_error" (the bytes are no audio).     *)
(* silence_ok: whether writing the silent clip succeeds.                    *)

SilenceSimple(text) ==
    Max(FallbackFloorSimple * TicksPerSecond,
        (Len(text) * TicksPerSecond) \div CharsPerSecond)

AudioResult(exc, audio_path, duration, files, posts) ==
    [exc |-> exc, audio_path |-> audio_path, duration |-> duration,
     files |-> files, posts |-> posts]

NoPath == Path(Elsewhere, "", NoRnd)

fallback_simple(text, files, by, silence_ok) ==
    LET duration == SilenceSimple(text)
        f_name   == NamedTemporaryFile(files, by, ".mp3")
    IN  IF silence_ok
        THEN AudioResult("none", f_name, duration,
                         files \cup {File(f_name, by, duration)}, 1)
        ELSE AudioResult("OSError", NoPath, 0,
                         files \cup {File(f_name, by, 0)}, 1)

generate_audio_elevenlabs(text, files, by, remote, silence_ok) ==
    LET audio_path == NamedTemporaryFile(files, by, ".mp3")
    IN  CASE remote.status = "ok" ->
               AudioResult("none", audio_path, remote.dur,
                           files \cup {File(audio_path, by, remote.dur)}, 1)
          [] remote.status = "http_error" ->
               fallback_simple(text, files, by, silence_ok)
          [] remote.status = "decode_error" ->
               fallback_simple(text, files \cup {File(audio_path, by, 0)},
                               by, silence_ok)

-----------------------------------------------------------------------------
(* dagen_video_simple.generate_srt                                          *)

SubRipItem(index, start, end, text) ==
    [index |-> index, start |-> start, end |-> end, text |-> text]

RECURSIVE srt_loop_same_start(_, _, _, _)
\* the loop without t0 += duration
srt_loop_same_start(pairs, idx, t0, files) ==
    IF pairs = <<>> THEN Ok(<<>>)
    ELSE LET txt  == pairs[1][1]
             clip == AudioFileClip(files, pairs[1][2])
         IN  IF clip.exc # "none" THEN Raise(clip.exc)
             ELSE IF txt.type # "str" THEN Raise("AttributeError")
             ELSE LET duration  == clip.val
                      line_text == Join(wrap(txt.chars, SrtWidthSimple), <<NL>>)
                      rest == srt_loop_same_start(Tail(pairs), idx + 1, t0, files)
                  IN  IF rest.exc # "none" THEN rest
                      ELSE Ok(<<SubRipItem(idx, t0, t0 + duration, line_text)>>
                              \o rest.val)

RECURSIVE srt_loop(_, _, _, _)
\* the for loop over enumerate(zip(scene_texts, audio_paths), start=1)
srt_loop(pairs, idx, t0, files) ==
    IF pairs = <<>> THEN Ok(<<>>)
    ELSE LET txt  == pairs[1][1]
             clip == AudioFileClip(files, pairs[1][2])
         IN  IF clip.exc # "none" THEN Raise(clip.exc)
             ELSE IF txt.type # "str" THEN Raise("AttributeError")
             ELSE LET duration  == clip.val
                      line_text == Join(wrap(txt.chars, SrtWidthSimple), <<NL>>)
                      rest == srt_loop(Tail(pairs), idx + 1, t0 + duration, files)
                  IN  IF rest.exc # "none" THEN rest
                      ELSE Ok(<<SubRipItem(idx, t0, t0 + duration, line_text)>>
                              \o rest.val)

\* returns [exc, srt_path, subs, files]
generate_srt(scene_texts, audio_paths, files, by, save_ok) ==
    LET subs == srt_loop(Zip(scene_texts, audio_paths), 1, 0, files)
    IN  IF subs.exc # "none"
        THEN [exc |-> subs.exc, srt_path |-> NoPath, subs |-> <<>>, files |-> files]
        ELSE IF ~save_ok
        THEN [exc |-> "OSError", srt_path |-> NoPath, subs |-> <<>>, files |-> files]
        ELSE [exc |-> "none", srt_path |-> SubtitlesPath, subs |-> subs.val,
              files |-> files \cup {File(SubtitlesPath, by, 0)}]

-----------------------------------------------------------------------------
(* dagen_video_simple.create_video                                          *)

\* a clip placed on a timeline
Placed(scene, start, end) == [scene |-> scene, start |-> start, end |-> end]

RECURSIVE clip_durations(_, _)
\* [AudioFileClip(p) for p in audio_paths]: the first unreadable file raises
clip_durations(files, audio_paths) ==
    IF audio_paths = <<>> THEN Ok(<<>>)
    ELSE LET clip == AudioFileClip(files, audio_paths[1])
             rest == clip_durations(files, Tail(audio_paths))
         IN  IF clip.exc # "none" THEN Raise(clip.exc)
             ELSE IF rest.exc # "none" THEN rest
             ELSE Ok(<<clip.val>> \o rest.val)

\* moviepy concatenate_audioclips: clip i starts where clip i-1 ends
concatenate_audioclips(durs) ==
    [i \in 1..Len(durs) |->
        Placed(i, SumSeq(SubSeq(durs, 1, i - 1)), SumSeq(SubSeq(durs, 1, i)))]

\* moviepy CompositeAudioClip: every clip keeps its own start, which is 0
\* for a clip fresh from AudioFileClip
CompositeAudioClip(durs) == [i \in 1..Len(durs) |-> Placed(i, 0, durs[i])]

\* the duration of a composite clip: the latest end of its parts
TrackDuration(track) ==
    IF track = <<>> THEN 0
    ELSE CHOOSE e \in {track[i].end : i \in 1..Len(track)} :
             \A i \in 1..Len(track) : track[i].end <= e

VideoResult(exc, audio, captions, video_duration, files) ==
    [exc |-> exc, audio |-> audio, captions |-> captions,
     video_duration |-> video_duration, files |-> files]

create_video(scene_texts, audio_paths, srt_path, output_path, files, by, encode_ok) ==
    LET audio_clips == clip_durations(files, audio_paths)
    IN  IF audio_clips.exc # "none"
        THEN VideoResult(audio_clips.exc, <<>>, <<>>, 0, files)
        ELSE IF audio_clips.val = <<>>        \* a composite of no clips
        THEN VideoResult("ValueError", <<>>, <<>>, 0, files)
        ELSE LET composite_audio == concatenate_audioclips(audio_clips.val)
                 total_duration  == TrackDuration(composite_audio)
             IN  IF encode_ok
                 THEN VideoResult("none", composite_audio, <<>>, total_duration,
                                  files \cup {File(output_path, by, 0)})
                 ELSE VideoResult("OSError", <<>>, <<>>, 0, files)

-----------------------------------------------------------------------------
(* backend/dagen_video_reels                                                *)

SceneReels(title, bullet_points, audio_filename, duration) ==
    [type |-> "SceneReels", title |-> title, bullet_points |-> bullet_points,
     audio_filename |-> audio_filename, duration |-> duration]

Prefix(s, n) == SubSeq(s, 1, Min(n, Len(s)))

\* summarise_text of the reels variant: the first four paragraphs
summarise_text_reels(text) ==
    LET ps == Prefix(paragraphs(text), MaxScenesReels)
    IN  [i \in 1..Len(ps) |->
            SceneReels(Prefix(ps[i], TitleLenReels),
                       wrap(ps[i], BulletWidthReels), NoPath, 0)]

\* sum(len(bp.split()) for bp in scene.bullet_points)
BulletWords(scene) ==
    SumSeq([i \in 1..Len(scene.bullet_points) |->
               Len(words(scene.bullet_points[i]))])

SilenceReels(scene) ==
    Max(FallbackFloorReels * TicksPerSecond,
        (BulletWords(scene) * TicksPerSecond) \div WordsPerSecond)

\* returns [exc, scene, files, posts]
generate_audio_elevenlabs_reels(scene, api_key, files, by, remote, silence_ok) ==
    IF api_key = ""
    THEN LET duration == SilenceReels(scene)
             tmp_wav  == NamedTemporaryFile(files, by, ".wav")
         IN  IF silence_ok
             THEN [exc |-> "none",
                   scene |-> [scene EXCEPT !.audio_filename = tmp_wav,
                                            !.duration = duration],
                   files |-> files \cup {File(tmp_wav, by, duration)},
                   posts |-> 0]
             ELSE [exc |-> "OSError", scene |-> scene,
                   files |-> files \cup {File(tmp_wav, by, 0)}, posts |-> 0]
    ELSE LET tmp_mp3 == NamedTemporaryFile(files, by, ".mp3")
         IN  CASE remote.status = "http_error" ->
                    [exc |-> "HTTPError", scene |-> scene, files |-> files,
                     posts |-> 1]
               [] remote.status = "decode_error" ->
                    [exc |-> "OSError", scene |-> scene,
                     files |-> files \cup {File(tmp_mp3, by, 0)}, posts |-> 1]
               [] remote.status = "ok" ->
                    [exc |-> "none",
                     scene |-> [scene EXCEPT !.audio_filename = tmp_mp3,
                                              !.duration = remote.dur],
                     files |-> files \cup {File(tmp_mp3, by, remote.dur)},
                     posts |-> 1]

RECURSIVE srt_loop_reels(_, _, _)
srt_loop_reels(scenes, i, current) ==
    IF scenes = <<>> THEN <<>>
    ELSE LET start == current
             end   == current + scenes[1].duration
             text  == Join(scenes[1].bullet_points, <<NL>>)
         IN  <<SubRipItem(i, start, end, text)>>
             \o srt_loop_reels(Tail(scenes), i + 1, end)

\* returns [exc, srt_path, subs, files]
generate_srt_reels(scenes, srt_path, files, by, save_ok) ==
    IF ~save_ok
    THEN [exc |-> "OSError", srt_path |-> NoPath, subs |-> <<>>, files |-> files]
    ELSE [exc |-> "none", srt_path |-> srt_path,
          subs |-> srt_loop_reels(scenes, 1, 0),
          files |-> files \cup {File(srt_path, by, 0)}]

RECURSIVE caption_loop(_, _, _)
\* the overlay loop: one TextClip per scene at the running time `current`
caption_loop(scenes, i, current) ==
    IF scenes = <<>> THEN <<>>
    ELSE <<[scene |-> i, start |-> current,
            end |-> current + scenes[1].duration,
            text |-> Join(scenes[1].bullet_points, <<NL>>)]>>
         \o caption_loop(Tail(scenes), i + 1, current + scenes[1].duration)

create_video_reels(scenes, output_path, files, by, encode_ok) ==
    LET total_duration == SumSeq([i \in 1..Len(scenes) |-> scenes[i].duration])
        audio_clips == clip_durations(files,
                           [i \in 1..Len(scenes) |-> scenes[i].audio_filename])
    IN  IF audio_clips.exc # "none"
        THEN VideoResult(audio_clips.exc, <<>>, <<>>, 0, files)
        ELSE IF audio_clips.val = <<>>        \* a composite of no clips
        THEN VideoResult("ValueError", <<>>, <<>>, 0, files)
        ELSE LET audio    == CompositeAudioClip(audio_clips.val)
                 captions == caption_loop(scenes, 1, 0)
                 \* CompositeVideoClip: the latest end of background and captions
                 final    == Max(total_duration, TrackDuration(captions))
             IN  IF encode_ok
                 THEN VideoResult("none", audio, captions, final,
                                  files \cup {File(output_path, by, 0)})
                 ELSE VideoResult("OSError", <<>>, <<>>, 0, files)

-----------------------------------------------------------------------------
(* backend/main.py: GET /convert                                            *)

Reqs == {"r1", "r2"}

\* the url of each invocation's request
RequestUrl == [r \in Reqs |-> IF r = "r1" THEN "https://dagen.no/a"
                                          ELSE "https://dagen.no/b"]

JSON_LOWER == <<"j", "s", "o", "n">>

Formats == {JSON_LOWER, <<"J", "S", "O", "N">>, <<"m", "p", "4">>}

\* what fetch_article_text can return: paragraph texts joined by newlines
HandlerArticles ==
    {<<>>, <<NL>>, <<"a">>, <<"a", NL, "b">>, <<"a", NL, "b", NL, "c">>}

FetchOutcomes == {"ok", "HTTPError", "ConnectionError"}

\* what the text-to-speech call can do
Remotes ==
    {[status |-> "ok", dur |-> 45], [status |-> "http_error", dur |-> 0],
     [status |-> "decode_error", dur |-> 0]}

NoResp == [status |-> 0, kind |-> "none", detail |-> "", exc |-> "none",
           url |-> "", scenes |-> <<>>, file_at_send |-> FALSE]

\* raise HTTPException(status_code=..., detail=f"...: {e}")
HTTPException(status_code, detail, e) ==
    [NoResp EXCEPT !.status = status_code, !.kind = "error",
                   !.detail = detail, !.exc = e]

\* ConvertResponse(url=url, scenes=scene_texts), sent with status 200
ConvertResponse(url, scenes) ==
    [NoResp EXCEPT !.status = 200, !.kind = "json", !.url = url, !.scenes = scenes]

\* FileResponse(video_path, media_type="video/mp4"): the file is opened when
\* the response is sent, after the handler has returned
FileResponse(files, video_path) ==
    [NoResp EXCEPT !.status = 200, !.kind = "video",
                   !.file_at_send = Exists(files, video_path)]

NewRequest(url, format) ==
    [pc |-> "fetch", url |-> url, format |-> format, fetch_ok |-> FALSE,
     article |-> <<>>, scene_texts |-> <<>>, scenes |-> <<>>,
     tmpdir |-> NoPath, log |-> <<>>, failure |-> "none", ext_fail |-> FALSE,
     made |-> {}, resp |-> NoResp]

\* a handler that goes on after a failed fetch, with no article
Fetch_goes_on(r) ==
    /\ req[r].pc = "fetch"
    /\ \E outcome \in FetchOutcomes, art \in HandlerArticles :
         req' = [req EXCEPT ![r] =
                   IF outcome = "ok"
                   THEN [@ EXCEPT !.pc = "summarise", !.fetch_ok = TRUE,
                                  !.article = art, !.log = Append(@, "fetch")]
                   ELSE [@ EXCEPT !.pc = "summarise", !.failure = outcome,
                                  !.log = Append(@, "fetch")]]
    /\ UNCHANGED <<sm, lib, fs>>

\* lines 48-51: article = fetch_article_text(url), or 400
Fetch(r) ==
    /\ req[r].pc = "fetch"
    /\ \E outcome \in FetchOutcomes, art \in HandlerArticles :
         req' = [req EXCEPT ![r] =
                   IF outcome = "ok"
                   THEN [@ EXCEPT !.pc = "summarise", !.fetch_ok = TRUE,
                                  !.article = art, !.log = Append(@, "fetch")]
                   ELSE [@ EXCEPT !.pc = "done", !.log = Append(@, "fetch"),
                                  !.failure = outcome,
                                  !.resp = HTTPException(400,
                                             "Failed to fetch article", outcome)]]
    /\ UNCHANGED <<sm, lib, fs>>

\* lines 53-56: summarise, and the early return for format=json
Summarise(r) ==
    /\ req[r].pc = "summarise"
    /\ LET res == summarise_text(req[r].article, MaxScenesConvert)
       IN  req' = [req EXCEPT ![r] =
                     IF res.exc # "none"      \* outside every try block
                     THEN [@ EXCEPT !.pc = "done", !.failure = res.exc,
                                    !.log = Append(@, "summarise"),
                                    !.resp = HTTPException(500,
                                               "Internal Server Error", res.exc)]
                     ELSE IF lower(req[r].format) = JSON_LOWER
                     THEN [@ EXCEPT !.pc = "done", !.scene_texts = res.val,
                                    !.log = Append(@, "summarise"),
                                    !.resp = ConvertResponse(req[r].url, res.val)]
                     ELSE [@ EXCEPT !.pc = "workspace", !.scene_texts = res.val,
                                    !.log = Append(@, "summarise")]]
    /\ UNCHANGED <<sm, lib, fs>>

\* lines 60-63: the temporary directory and its audio subdirectory
EnterWorkspace(r) ==
    /\ req[r].pc = "workspace"
    /\ LET tmpdir    == TemporaryDirectory(fs, r)
           audio_dir == InWorkspace(tmpdir, "audio")
       IN  /\ fs' = fs \cup {File(tmpdir, r, 0), File(audio_dir, r, 0)}
           /\ req' = [req EXCEPT ![r] =
                        [@ EXCEPT !.pc = IF req[r].scene_texts = <<>>
                                         THEN "srt" ELSE "synth",
                                  !.tmpdir = tmpdir,
                                  !.made = @ \cup {tmpdir, audio_dir}]]
    /\ UNCHANGED <<sm, lib>>

\* lines 75-76 reached from inside the with block: the workspace is removed
\* as the exception leaves it, then 500
Fail500(r, stage, e, files, external) ==
    /\ fs' = Cleanup(files, req[r].tmpdir)
    /\ req' = [req EXCEPT ![r] =
                 [@ EXCEPT !.pc = "done", !.failure = e,
                           !.log = IF @[Len(@)] = stage THEN @
                                   ELSE Append(@, stage),
                           !.ext_fail = @ \/ external,
                           !.made = @ \cup {f.path : f \in {g \in files : g.by = r}},
                           !.resp = HTTPException(500,
                                      "Failed to generate video", e)]]

\* lines 64-66: one iteration of the synthesis loop
Synth(r) ==
    /\ req[r].pc = "synth"
    /\ \E remote \in Remotes, silence_ok \in BOOLEAN :
         LET idx  == Len(req[r].scenes) + 1
             text == req[r].scene_texts[idx]
             a    == generate_audio_elevenlabs(text, fs, r, remote, silence_ok)
         IN  IF a.exc # "none"
             THEN Fail500(r, "synth", a.exc, a.files, TRUE)
             ELSE /\ fs' = a.files
                  /\ req' = [req EXCEPT ![r] =
                        [@ EXCEPT !.pc = IF idx = Len(req[r].scene_texts)
                                         THEN "srt" ELSE "synth",
                                  !.scenes = Append(@, Scene(text, a.audio_path,
                                                             a.duration)),
                                  !.made = @ \cup {f.path : f \in
                                              {g \in a.files : g.by = r}},
                                  !.log = IF idx = 1 THEN Append(@, "synth")
                                          ELSE @]]
    /\ UNCHANGED <<sm, lib>>

\* lines 68-69: generate_srt(scenes, srt_path); the library's parameters are
\* (scene_texts, audio_paths), so the Scene objects arrive as texts and the
\* characters of the path string as audio paths
Srt(r) ==
    /\ req[r].pc = "srt"
    /\ \E save_ok \in BOOLEAN :
         LET srt_path == InWorkspace(req[r].tmpdir, "subs.srt")
             s == generate_srt(req[r].scenes, CharsOfPath(srt_path), fs, r, save_ok)
             external == generate_srt(req[r].scenes, CharsOfPath(srt_path),
                                      fs, r, TRUE).exc = "none"
         IN  IF s.exc # "none"
             THEN Fail500(r, "srt", s.exc, s.files, external)
             ELSE /\ fs' = s.files
                  /\ req' = [req EXCEPT ![r] =
                        [@ EXCEPT !.pc = "video",
                                  !.made = @ \cup {s.srt_path},
                                  !.log = Append(@, "srt")]]
    /\ UNCHANGED <<sm, lib>>

\* lines 71-74: create_video(scenes, brand, video_path) gives three arguments
\* to five required parameters; line 74 returns from inside the with block,
\* so the workspace is removed before the response is sent
Video(r) ==
    /\ req[r].pc = "video"
    /\ LET video_path == InWorkspace(req[r].tmpdir, "reel.mp4")
       IN  IF CreateVideoArgs # CreateVideoParams
           THEN Fail500(r, "video", "TypeError", fs, FALSE)
           ELSE /\ fs' = Cleanup(fs, req[r].tmpdir)
                /\ req' = [req EXCEPT ![r] =
                      [@ EXCEPT !.pc = "done", !.log = Append(@, "video"),
                                !.resp = FileResponse(fs', video_path)]]
    /\ UNCHANGED <<sm, lib>>

-----------------------------------------------------------------------------
(* One run of a library variant, each function called as its own signature  *)
(* asks: synthesis for every scene, then generate_srt, then create_video.   *)

Variants == {"simple", "reels"}

ApiKeys == {"", "key"}

WordsText(n) == Join([i \in 1..n |-> <<"a">>], <<SP>>)

\* one word; seven words (3.5 s of words); sixteen words (31 characters)
LibTexts == {WordsText(1), WordsText(7), WordsText(16)}

LibIdle ==
    [pc |-> "idle", variant |-> "simple", api_key |-> "", texts |-> <<>>,
     scenes |-> <<>>, calls |-> <<>>, exc |-> "none", srt_done |-> FALSE,
     subs |-> <<>>, srt_path |-> NoPath, audio |-> <<>>, captions |-> <<>>,
     video_duration |-> 0]

NewLib(variant, api_key, paras) ==
    LET article == Join(paras, <<NL>>)
        texts   == IF variant = "simple"
                   THEN summarise_text(article, MaxScenesConvert).val
                   ELSE summarise_text_reels(article)
    IN  [LibIdle EXCEPT !.pc = IF texts = <<>> THEN "srt" ELSE "synth",
                        !.variant = variant, !.api_key = api_key,
                        !.texts = texts]

\* what one call of generate_audio_elevenlabs met and did
Call(remote, silence_ok, posts, exc) ==
    [status |-> remote.status, silence_ok |-> silence_ok, posts |-> posts,
     exc |-> exc]

\* the caller's loop: generate_audio_elevenlabs for the next scene
LibSynth ==
    /\ lib.pc = "synth"
    /\ \E remote \in Remotes, silence_ok \in BOOLEAN :
         LET i == Len(lib.scenes) + 1
             last == i = Len(lib.texts)
         IN  IF lib.variant = "simple"
             THEN LET a == generate_audio_elevenlabs(lib.texts[i], fs, "lib",
                                                     remote, silence_ok)
                  IN  /\ fs' = a.files
                      /\ lib' = [lib EXCEPT
                            !.calls = Append(@, Call(remote, silence_ok,
                                                     a.posts, a.exc)),
                            !.exc = a.exc,
                            !.scenes = IF a.exc # "none" THEN @
                                       ELSE Append(@, Scene(lib.texts[i],
                                                 a.audio_path, a.duration)),
                            !.pc = IF a.exc # "none" THEN "done"
                                   ELSE IF last THEN "srt" ELSE "synth"]
             ELSE LET g == generate_audio_elevenlabs_reels(lib.texts[i],
                               lib.api_key, fs, "lib", remote, silence_ok)
                  IN  /\ fs' = g.files
                      /\ lib' = [lib EXCEPT
                            !.calls = Append(@, Call(remote, silence_ok,
                                                     g.posts, g.exc)),
                            !.exc = g.exc,
                            !.scenes = IF g.exc # "none" THEN @
                                       ELSE Append(@, g.scene),
                            !.pc = IF g.exc # "none" THEN "done"
                                   ELSE IF last THEN "srt" ELSE "synth"]
    /\ UNCHANGED <<sm, req>>

LibSrtPath   == Path(Elsewhere, "out.srt", NoRnd)
LibVideoPath == Path(Elsewhere, "out.mp4", NoRnd)

\* generate_srt over the synthesised scenes
LibSrt ==
    /\ lib.pc = "srt"
    /\ \E save_ok \in BOOLEAN :
         LET s == IF lib.variant = "simple"
                  THEN generate_srt(
                           [i \in 1..Len(lib.scenes) |-> Str(lib.scenes[i].text)],
                           [i \in 1..Len(lib.scenes) |-> lib.scenes[i].audio_path],
                           fs, "lib", save_ok)
                  ELSE generate_srt_reels(lib.scenes, LibSrtPath, fs, "lib",
                                          save_ok)
         IN  /\ fs' = s.files
             /\ lib' = [lib EXCEPT !.exc = s.exc,
                                   !.srt_done = s.exc = "none",
                                   !.subs = s.subs, !.srt_path = s.srt_path,
                                   !.pc = IF s.exc # "none" THEN "done"
                                          ELSE "video"]
    /\ UNCHANGED <<sm, req>>

\* create_video over the synthesised scenes
LibVideo ==
    /\ lib.pc = "video"
    /\ \E encode_ok \in BOOLEAN :
         LET v == IF lib.variant = "simple"
                  THEN create_video(
                           [i \in 1..Len(lib.scenes) |-> lib.scenes[i].text],
                           [i \in 1..Len(lib.scenes) |-> lib.scenes[i].audio_path],
                           lib.srt_path, LibVideoPath, fs, "lib", encode_ok)
                  ELSE create_video_reels(lib.scenes, LibVideoPath, fs, "lib",
                                          encode_ok)
         IN  /\ fs' = v.files
             /\ lib' = [lib EXCEPT !.exc = v.exc, !.audio = v.audio,
                                   !.captions = v.captions,
                                   !.video_duration = v.video_duration,
                                   !.pc = "done"]
    /\ UNCHANGED <<sm, req>>

ReqIdle == [r \in Reqs |-> [NewRequest(RequestUrl[r], JSON_LOWER) EXCEPT !.pc = "idle"]]

-----------------------------------------------------------------------------
(* Specifications *)

Init ==
    /\ sm = SmIdle
    /\ lib = LibIdle
    /\ fs = {}
    /\ \E f \in [Reqs -> Formats] :
         req = [r \in Reqs |-> NewRequest(RequestUrl[r], f[r])]

Next == \E r \in Reqs :
           Fetch(r) \/ Summarise(r) \/ EnterWorkspace(r) \/ Synth(r) \/ Srt(r)
           \/ Video(r)

Spec == Init /\ [][Next]_vars


\* summarise_text alone, over every article and scene count within the bounds
InitSummarise ==
    /\ sm \in {[SmIdle EXCEPT !.pc = "call", !.article = a, !.max_scenes = n] :
                  a \in Articles, n \in 0..MaxScenesArg}
    /\ lib = LibIdle
    /\ req = ReqIdle
    /\ fs = {}

NextSummarise == CallSummarise

SpecSummarise == InitSummarise /\ [][NextSummarise]_vars

\* one library run, either variant
InitLib ==
    /\ sm = SmIdle
    /\ lib \in {NewLib(v, k, t) : v \in Variants, k \in ApiKeys,
                                  t \in SeqsUpTo(LibTexts, MaxLibScenes)}
    /\ req = ReqIdle
    /\ fs = {}

NextLib == LibSynth \/ LibSrt \/ LibVideo

SpecLib == InitLib /\ [][NextLib]_vars

-----------------------------------------------------------------------------
(* Claims about GET /convert (specification Spec) *)

JsonFormats == {JSON_LOWER, <<"J", "S", "O", "N">>}

ThreeParagraphs == <<"a", NL, "b", NL, "c">>

Finished(r) == req[r].pc = "done"

\* C1: a failed fetch answers 400, runs no later stage and creates no
\* workspace; after a successful fetch a stage that raises answers 500 with
\* that failure's description; no video is returned once a stage has failed.
C1_FailuresMapToStatus ==
    \A r \in Reqs :
        /\ (Finished(r) /\ ~req[r].fetch_ok) =>
              /\ req[r].resp.status = 400
              /\ req[r].resp.exc = req[r].failure
              /\ req[r].log = <<"fetch">>
              /\ req[r].made = {}
              /\ ~\E f \in fs : f.by = r
        /\ (Finished(r) /\ req[r].fetch_ok /\ req[r].failure # "none") =>
              /\ req[r].resp.status = 500
              /\ req[r].resp.kind = "error"
              /\ req[r].resp.exc = req[r].failure
        /\ (req[r].failure # "none") => req[r].resp.kind # "video"
        /\ (~req[r].fetch_ok /\ req[r].log # <<>>) => Finished(r)

C1_Witness ==
    /\ Finished("r1") /\ ~req["r1"].fetch_ok /\ req["r1"].resp.status = 400
    /\ Finished("r2") /\ req["r2"].fetch_ok /\ req["r2"].failure = "OSError"
    /\ Len(req["r2"].scenes) >= 1
    /\ req["r2"].resp.status = 500

\* C2 (as claimed): with a format other than json, a successful fetch and
\* every external operation succeeding, the handler runs synthesis, subtitles
\* and video and answers 200 with a video file that still exists when sent.
C2_VideoReturned ==
    \A r \in Reqs :
        (Finished(r) /\ req[r].fetch_ok /\ req[r].format \notin JsonFormats
            /\ ~req[r].ext_fail) =>
              /\ req[r].resp.status = 200
              /\ req[r].resp.kind = "video"
              /\ req[r].resp.file_at_send

\* C3 (as claimed): once a request has ended, no file it created remains.
C3_NothingLeftBehind ==
    \A r \in Reqs : Finished(r) => ~\E f \in fs : f.by = r

\* C4: format=json in any letter case, after a successful fetch, runs only
\* fetch and summarise, returns the request's url and the summariser's scene
\* texts in order (the three paragraphs of a three-paragraph article), and
\* creates no workspace and no file.
C4_JsonOnlySummarises ==
    \A r \in Reqs :
        (req[r].fetch_ok /\ req[r].format \in JsonFormats) =>
            /\ req[r].made = {}
            /\ ~\E f \in fs : f.by = r
            /\ req[r].scenes = <<>>
            /\ req[r].pc \in {"summarise", "done"}
            /\ Finished(r) =>
                  /\ req[r].log = <<"fetch", "summarise">>
                  /\ req[r].resp.status = 200
                  /\ req[r].resp.kind = "json"
                  /\ req[r].resp.url = RequestUrl[r]
                  /\ req[r].resp.scenes = paragraphs(req[r].article)
                  /\ req[r].article = ThreeParagraphs =>
                        req[r].resp.scenes = << <<"a">>, <<"b">>, <<"c">> >>

C4_Witness ==
    /\ Finished("r1")
    /\ req["r1"].format = <<"J", "S", "O", "N">>
    /\ req["r1"].article = ThreeParagraphs
    /\ req["r1"].resp.kind = "json"
    /\ Len(req["r1"].resp.scenes) = 3

\* C10 (as claimed): two invocations never write the same path.
C10_NoSharedPath ==
    \A f \in fs, g \in fs : f.path = g.path => f.by = g.by

-----------------------------------------------------------------------------
(* Claims about summarise_text (specification SpecSummarise) *)

\* C5 (as claimed): for P >= 1 paragraphs and N >= 0, summarise_text returns
\* without raising at most N scenes, scene i being paragraph
\* floor(i * P / min(N, P)); a blank article gives the empty list.
C5_SummariseTotal ==
    (sm.pc = "returned") =>
        LET ps == paragraphs(sm.article)
            P  == Len(ps)
            N  == sm.max_scenes
            n  == Min(N, P)
            out == sm.result
        IN  /\ out.exc = "none"
            /\ Len(out.val) <= N
            /\ P = 0 => out.val = <<>>
            /\ P >= 1 =>
                  /\ Len(out.val) = n
                  /\ \A k \in 1..Len(out.val) :
                        out.val[k] = ps[((k - 1) * P) \div n + 1]

-----------------------------------------------------------------------------
(* Claims about a library run (specification SpecLib) *)

\* the duration of scene i's audio
SceneDuration(i) == lib.scenes[i].duration

SceneDurations == [i \in 1..Len(lib.scenes) |-> SceneDuration(i)]

\* the time at which scene i begins on the cumulative timeline
SceneStart(i) == SumSeq(SubSeq(SceneDurations, 1, i - 1))

\* C6: generate_srt over k scenes gives k entries indexed 1..k, the first
\* starting at 0, each ending at its start plus its scene's duration, each
\* later one starting where the previous ends, the last ending at the sum of
\* the durations, none empty or negative; for k = 0 no entries.
C6_SubtitlesContiguous ==
    lib.srt_done =>
        LET k == Len(lib.scenes)
        IN  /\ Len(lib.subs) = k
            /\ Exists(fs, lib.srt_path)
            /\ \A i \in 1..k :
                  /\ lib.subs[i].index = i
                  /\ lib.subs[i].start = (IF i = 1 THEN 0 ELSE lib.subs[i - 1].end)
                  /\ lib.subs[i].end = lib.subs[i].start + SceneDuration(i)
                  /\ lib.subs[i].end > lib.subs[i].start
            /\ k > 0 => lib.subs[k].end = SumSeq(SceneDurations)

C6_Witness ==
    /\ lib.srt_done
    /\ Len(lib.subs) = 3
    /\ lib.subs[2].start > 0
    /\ lib.subs[3].end - lib.subs[3].start # lib.subs[2].end - lib.subs[2].start

Rendered == lib.pc = "done" /\ lib.exc = "none"

\* C7 (as claimed): in the rendered output scene i's audio, subtitle entry
\* and caption all start at the sum of the durations of the scenes before it.
C7_TimelinesAgree ==
    Rendered =>
        LET k == Len(lib.scenes)
        IN  /\ Len(lib.audio) = k /\ Len(lib.subs) = k /\ Len(lib.captions) = k
            /\ \A i \in 1..k :
                  /\ lib.audio[i].start = SceneStart(i)
                  /\ lib.subs[i].start = SceneStart(i)
                  /\ lib.captions[i].start = SceneStart(i)
                  /\ lib.captions[i].end = SceneStart(i) + SceneDuration(i)

\* the remote call of scene i was made and failed
RemoteFailed(i) ==
    lib.calls[i].posts > 0 /\ lib.calls[i].status # "ok"

FallbackFloor ==
    (IF lib.variant = "simple" THEN FallbackFloorSimple ELSE FallbackFloorReels)
    * TicksPerSecond

\* C8 (as claimed): a failed remote call is never surfaced: the call returns
\* silence of at least the fallback floor (the silent clip itself being
\* writable), other scenes' results are untouched, and the remote call is
\* made at most once per scene.
C8_RemoteFailureAbsorbed ==
    \A i \in 1..Len(lib.calls) :
        /\ lib.calls[i].posts <= 1
        /\ (RemoteFailed(i) /\ lib.calls[i].silence_ok) =>
              /\ lib.calls[i].exc = "none"
              /\ i <= Len(lib.scenes)
              /\ SceneDuration(i) >= FallbackFloor

\* C9 (as claimed): create_video's audio track is the in-order concatenation
\* of the scene clips, and the video lasts as long as that track, which is
\* the sum of the input durations.
C9_AudioConcatenated ==
    Rendered =>
        LET k == Len(lib.scenes)
        IN  /\ Len(lib.audio) = k
            /\ \A i \in 1..k :
                  /\ lib.audio[i].start = (IF i = 1 THEN 0 ELSE lib.audio[i - 1].end)
                  /\ lib.audio[i].end = lib.audio[i].start + SceneDuration(i)
            /\ lib.video_duration = TrackDuration(lib.audio)
            /\ lib.video_duration = SumSeq(SceneDurations)

=============================================================================
